---- MODULE Spec2Model ----
(***************************************************************************)
(* Model of the request pipeline of src/server.js: CORS gate, JSON body    *)
(* parser, API-key middleware, portfolio validator, parallel quote         *)
(* lookups, completion request, and the two error-to-JSON mappings.        *)
(*                                                                         *)
(* JavaScript values are records [t, s, n]: t is the type tag, s the       *)
(* characters of a string (a sequence of one-character strings; a longer   *)
(* element stands for an opaque run of text), n the value of a number or   *)
(* boolean.  NaN and the infinities are numbers whose s names them.        *)
(***************************************************************************)
EXTENDS Integers, Sequences, FiniteSets, TLC

VARIABLES
  env,              \* process.env: the three secrets and ALLOWED_ORIGINS
  allowedOrigins,   \* module constant computed at load (server.js:12-15)
  req,              \* the inbound request: method, origin, apiKey, body
  pc,               \* position of the request in the pipeline
  portfolio,        \* handler local portfolio (server.js:113)
  includePrices,    \* handler local includePrices (server.js:113)
  validationError,  \* result of validatePortfolioInput
  symbols,          \* argument of fetchPricesForSymbols
  requests,         \* unique: the symbol of each outbound quote request
  lookups,          \* the promise of each outbound quote request
  prices,           \* the price map
  completion,       \* the outbound completion request
  outbound,         \* how many outbound calls the request has issued
  res               \* the response sent, once sent

vars == << env, allowedOrigins, req, pc, portfolio, includePrices,
           validationError, symbols, requests, lookups, prices, completion,
           outbound, res >>

----------------------------------------------------------------------------
(* JavaScript values *)

JS(t, s, n) == [t |-> t, s |-> s, n |-> n]
Undefined == JS("undefined", <<>>, 0)
Null == JS("null", <<>>, 0)
Bool(b) == JS("boolean", <<>>, IF b THEN 1 ELSE 0)
Num(n) == JS("number", <<>>, n)
NaN == JS("number", <<"NaN">>, 0)
PosInfinity == JS("number", <<"Infinity">>, 0)
NegInfinity == JS("number", <<"-Infinity">>, 0)
Str(s) == JS("string", s, 0)
Obj == JS("object", <<>>, 0)

\* typeof v
TypeOf(v) == IF v.t = "null" THEN "object" ELSE v.t

\* ToBoolean(v): what !v, v || d and v ? a : b test
Truthy(v) ==
  CASE v.t = "undefined" -> FALSE
    [] v.t = "null" -> FALSE
    [] v.t = "boolean" -> v.n = 1
    [] v.t = "number" -> IF v.s = <<>> THEN v.n # 0 ELSE v.s # <<"NaN">>
    [] v.t = "string" -> v.s # <<>>
    [] OTHER -> TRUE

\* a || b
OrElse(a, b) == IF Truthy(a) THEN a ELSE b

\* a ?? b
Coalesce(a, b) == IF a.t \in {"undefined", "null"} THEN b ELSE a

\* v < 0 for a number v
LessThanZero(v) == IF v.s = <<>> THEN v.n < 0 ELSE v.s = <<"-Infinity">>

IsWhitespace(c) == c = " "

RECURSIVE TrimStart(_)
TrimStart(s) ==
  IF s # <<>> /\ IsWhitespace(Head(s)) THEN TrimStart(Tail(s)) ELSE s

RECURSIVE TrimEnd(_)
TrimEnd(s) ==
  IF s # <<>> /\ IsWhitespace(s[Len(s)])
  THEN TrimEnd(SubSeq(s, 1, Len(s) - 1))
  ELSE s

\* String.prototype.trim
Trim(s) == TrimEnd(TrimStart(s))

UpperChar(c) ==
  CASE c = "a" -> "A"
    [] c = "p" -> "P"
    [] c = "l" -> "L"
    [] c = "m" -> "M"
    [] c = "s" -> "S"
    [] c = "f" -> "F"
    [] c = "t" -> "T"
    [] OTHER -> c

\* String.prototype.toUpperCase
ToUpperCase(s) == [i \in 1..Len(s) |-> UpperChar(s[i])]

----------------------------------------------------------------------------
(* Input validator (server.js:65-84).  The messages are the source's,      *)
(* without their backquotes.                                               *)

isNonEmptyString(value) ==
  TypeOf(value) = "string" /\ Len(Trim(value.s)) > 0

QuantityRejected(q) ==
  /\ TypeOf(q) # "undefined"
  /\ \/ TypeOf(q) # "number"
     \/ q.s = <<"NaN">>
     \/ LessThanZero(q)

\* The error of one item, Null when the item passes.  An item is
\* [v, symbol, quantity]: v the value itself (Obj for an object), symbol
\* and quantity its two properties (Undefined when it has none).
ItemError(item) ==
  IF ~Truthy(item.v) \/ TypeOf(item.v) # "object"
  THEN Str(<<"Each portfolio item must be an object">>)
  ELSE IF ~isNonEmptyString(item.symbol)
  THEN Str(<<"Each item requires a non-empty symbol">>)
  ELSE IF QuantityRejected(item.quantity)
  THEN Str(<<"quantity must be a non-negative number when provided">>)
  ELSE Null

RECURSIVE FirstItemError(_)
FirstItemError(items) ==
  IF items = <<>> THEN Null
  ELSE IF ItemError(Head(items)) # Null THEN ItemError(Head(items))
  ELSE FirstItemError(Tail(items))

\* A portfolio value is [t, items]: t = "array" for an array of items.
validatePortfolioInput(p) ==
  IF p.t # "array" \/ Len(p.items) = 0
  THEN Str(<<"portfolio must be a non-empty array">>)
  ELSE FirstItemError(p.items)

----------------------------------------------------------------------------
(* Inputs of the validator *)

MaxItems == 2

Item(v, symbol, quantity) == [v |-> v, symbol |-> symbol, quantity |-> quantity]

SymbolValues ==
  { Undefined, Num(7), Str(<<>>), Str(<<" ">>), Str(<<" ", "a">>), Str(<<"A">>) }

QuantityValues ==
  { Undefined, Null, Str(<<"5">>), NaN, PosInfinity, NegInfinity,
    Num(-1), Num(0), Num(5) }

ItemValues ==
  { Item(v, Undefined, Undefined) : v \in {Null, Num(3), Str(<<"a">>)} }
  \cup { Item(Obj, s, q) : s \in SymbolValues, q \in QuantityValues }

Array(items) == [t |-> "array", items |-> items]
NonArray(t) == [t |-> t, items |-> <<>>]

ItemSeqs(n) == UNION { [1..k -> ItemValues] : k \in 0..n }

PortfolioValues ==
  { NonArray(t) : t \in {"undefined", "null", "object", "string", "number"} }
  \cup { Array(items) : items \in ItemSeqs(MaxItems) }

NoRequest ==
  [method |-> "none", origin |-> Undefined, apiKey |-> Undefined,
   body |-> [kind |-> "none", portfolio |-> NonArray("undefined"),
             includePrices |-> Undefined]]

NoEnv ==
  [AI_SERVICE_KEY |-> Undefined, FINNHUB_API_KEY |-> Undefined,
   OPEN_AI_KEY |-> Undefined, ALLOWED_ORIGINS |-> Undefined]

NoCompletion == [state |-> "none", outcome |-> "none"]
NoOutbound == [quotes |-> 0, completions |-> 0]
NoResponse ==
  [status |-> 0, keys |-> {}, error |-> Undefined, analysis |-> Undefined,
   prices |-> <<>>,
   health |-> [defined |-> FALSE, OPEN_AI_KEY |-> FALSE, FINNHUB_API_KEY |-> FALSE,
               AI_SERVICE_KEY |-> FALSE, ALLOWED_ORIGINS |-> <<>>]]

\* The validator alone: any portfolio value, then one call.
InitValidate ==
  /\ env = NoEnv
  /\ allowedOrigins = <<>>
  /\ req = NoRequest
  /\ pc = "validate"
  /\ portfolio \in PortfolioValues
  /\ includePrices = Undefined
  /\ validationError = Undefined
  /\ symbols = <<>>
  /\ requests = <<>>
  /\ lookups = <<>>
  /\ prices = <<>>
  /\ completion = NoCompletion
  /\ outbound = NoOutbound
  /\ res = NoResponse

Validate ==
  /\ pc = "validate"
  /\ validationError' = validatePortfolioInput(portfolio)
  /\ pc' = "validated"
  /\ UNCHANGED << env, allowedOrigins, req, portfolio, includePrices, symbols,
                  requests, lookups, prices, completion, outbound, res >>

NextValidate == Validate

SpecValidate == InitValidate /\ [][NextValidate]_vars

----------------------------------------------------------------------------
(* Configuration (server.js:12-15, 38-43) *)

RECURSIVE Split(_, _)
\* String.prototype.split on a one-character separator
Split(s, sep) ==
  IF \A i \in 1..Len(s) : s[i] # sep THEN << s >>
  ELSE LET k == CHOOSE i \in 1..Len(s) :
                  s[i] = sep /\ \A j \in 1..(i - 1) : s[j] # sep
       IN << SubSeq(s, 1, k - 1) >> \o Split(SubSeq(s, k + 1, Len(s)), sep)

\* .map((s) => s.trim()).filter(Boolean)
TrimAndDropEmpty(parts) ==
  SelectSeq([i \in 1..Len(parts) |-> Trim(parts[i])], LAMBDA x : x # <<>>)

\* allowedOrigins of an ALLOWED_ORIGINS value
ParseAllowedOrigins(raw) ==
  TrimAndDropEmpty(Split(OrElse(raw, Str(<<>>)).s, ","))

\* includes
Includes(list, x) == \E i \in 1..Len(list) : list[i] = x

\* The error objects of the program: an optional response {status, data},
\* an optional status, an optional message.
NoResponseField == [present |-> FALSE, status |-> Undefined, data |-> Undefined]
ErrorOf(status, message) ==
  [response |-> NoResponseField, status |-> status, message |-> message]

\* requireEnv(key): the value returned, or the Error thrown
requireEnv(key) ==
  IF ~Truthy(env[key])
  THEN [threw |-> TRUE, value |-> Undefined,
        error |-> ErrorOf(Undefined, Str(<<"Missing required env: ", key>>))]
  ELSE [threw |-> FALSE, value |-> env[key], error |-> ErrorOf(Undefined, Undefined)]

----------------------------------------------------------------------------
(* Responses *)

NoPrices == [defined |-> FALSE, map |-> <<>>]
NoHealth == [defined |-> FALSE, OPEN_AI_KEY |-> FALSE, FINNHUB_API_KEY |-> FALSE,
             AI_SERVICE_KEY |-> FALSE, ALLOWED_ORIGINS |-> <<>>]

\* An object handed to res.json: each property a value or undefined.
BodyObject(error, analysis, pricesProp, health) ==
  [error |-> error, analysis |-> analysis, prices |-> pricesProp, health |-> health]

\* JSON.stringify drops the properties whose value is undefined.
JsonKeys(obj) ==
  {k \in {"error", "analysis"} : obj[k] # Undefined}
  \cup (IF obj.prices.defined THEN {"prices"} ELSE {})
  \cup (IF obj.health.defined THEN {"status", "service", "env"} ELSE {})

\* res.status(status).json(obj)
ResJson(status, obj) ==
  [status |-> status, keys |-> JsonKeys(obj), error |-> obj.error,
   analysis |-> obj.analysis, prices |-> obj.prices.map, health |-> obj.health]

ErrorBody(message) == BodyObject(message, Undefined, NoPrices, NoHealth)

\* The global error handler (server.js:170-174)
ErrorHandler(err) ==
  LET status == OrElse(err.status, Num(500))
      msg == OrElse(err.message, Str(<<"Server error">>))
  IN ResJson(status.n, ErrorBody(msg))

\* The catch of the analyze-portfolio handler (server.js:145-150)
CatchAnalyze(error) ==
  LET status == OrElse(error.response.status, Num(500))
      message == OrElse(error.response.data,
                        OrElse(error.message, Str(<<"AI analysis failed">>)))
  IN ResJson(status.n,
             ErrorBody(IF TypeOf(message) = "string" THEN message
                       ELSE Str(<<"AI analysis failed">>)))

----------------------------------------------------------------------------
(* Requests and environments *)

Good == "https://good.example"
Evil == "https://evil.example"
App == "https://app.example"

AllowedOriginsValues ==
  { Undefined, Str(<<" ", ",", " ">>), Str(<<Good>>),
    Str(<<" ", Good, " ", ",", ",", App>>) }

OriginValues == { Undefined, Str(<<>>), Str(<<Good>>), Str(<<Evil>>) }

Secret == <<"s3cret">>

EnvValues ==
  [AI_SERVICE_KEY : {Undefined, Str(<<>>), Str(Secret)},
   FINNHUB_API_KEY : {Undefined, Str(<<"fh-token">>)},
   OPEN_AI_KEY : {Undefined, Str(<<"sk-key">>)},
   ALLOWED_ORIGINS : AllowedOriginsValues]

ApiKeyValues == { Undefined, Str(<<>>), Str(Secret), Str(<<"wrong">>) }

aapl == <<"a", "a", "p", "l">>
AAPL == <<"A", "A", "P", "L">>
msft == <<"m", "s", "f", "t">>
MSFT == <<"M", "S", "F", "T">>

Position(symbol, quantity) == Item(Obj, Str(symbol), quantity)

RequestPortfolios ==
  { NonArray("undefined"),
    Array(<<>>),
    Array(<< Position(<<" ">>, Undefined) >>),
    Array(<< Position(AAPL, Num(-1)) >>),
    Array(<< Position(AAPL, Num(5)) >>),
    Array(<< Position(msft, PosInfinity) >>),
    Array(<< Position(aapl, Num(5)), Position(<<" ">> \o AAPL \o <<" ">>, Undefined),
             Position(msft, Num(0)) >>) }

IncludePricesValues == { Undefined, Bool(TRUE), Bool(FALSE), Null, Num(1) }

Body(kind, p, ip) == [kind |-> kind, portfolio |-> p, includePrices |-> ip]

\* No body, a body that is not JSON, a body over the limit, a JSON object.
OtherBodies ==
  { Body(k, NonArray("undefined"), Undefined) : k \in {"none", "malformed", "oversized"} }

ObjectBodies ==
  { Body("object", p, ip) : p \in RequestPortfolios, ip \in IncludePricesValues }

Request(method, origin, apiKey, body) ==
  [method |-> method, origin |-> origin, apiKey |-> apiKey, body |-> body]

RequestValues ==
  { Request("POST", o, k, b) :
      o \in OriginValues, k \in ApiKeyValues, b \in OtherBodies \cup ObjectBodies }
  \cup { Request("GET", o, k, b) :
      o \in OriginValues, k \in {Undefined, Str(Secret)},
      b \in OtherBodies \cup {Body("object", NonArray("undefined"), Undefined)} }
  \cup { Request("OPTIONS", o, Undefined, Body("none", NonArray("undefined"), Undefined)) :
      o \in OriginValues }

\* The process after module load, before a request.
Init ==
  /\ env \in EnvValues
  /\ allowedOrigins = ParseAllowedOrigins(env.ALLOWED_ORIGINS)
  /\ req = NoRequest
  /\ pc = "listening"
  /\ portfolio = NonArray("undefined")
  /\ includePrices = Undefined
  /\ validationError = Undefined
  /\ symbols = <<>>
  /\ requests = <<>>
  /\ lookups = <<>>
  /\ prices = <<>>
  /\ completion = NoCompletion
  /\ outbound = NoOutbound
  /\ res = NoResponse

Receive ==
  /\ pc = "listening"
  /\ req' \in RequestValues
  /\ pc' = "cors"
  /\ UNCHANGED << env, allowedOrigins, portfolio, includePrices, validationError,
                  symbols, requests, lookups, prices, completion, outbound, res >>

----------------------------------------------------------------------------
(* Middleware (server.js:17-32, 52-63, 154-166) *)

\* CorsAllows without the permissive branch for an empty allow-list
CorsAllowsListedOnly(origin) ==
  IF ~Truthy(origin) THEN TRUE
  ELSE IF Includes(allowedOrigins, origin.s) THEN TRUE
  ELSE FALSE

\* corsOptions.origin: TRUE for callback(null, true), FALSE for callback(Error)
CorsAllows(origin) ==
  IF ~Truthy(origin) THEN TRUE
  ELSE IF Len(allowedOrigins) = 0 THEN TRUE
  ELSE IF Includes(allowedOrigins, origin.s) THEN TRUE
  ELSE FALSE

\* app.use(cors(corsOptions)): a refused origin goes to the error handler, a
\* preflight is answered 204 by the cors middleware, the rest goes on.
CorsGate ==
  /\ pc = "cors"
  /\ IF ~CorsAllows(req.origin)
     THEN /\ res' = ErrorHandler(ErrorOf(Undefined, Str(<<"Not allowed by CORS">>)))
          /\ pc' = "responded"
     ELSE IF req.method = "OPTIONS"
     THEN /\ res' = [NoResponse EXCEPT !.status = 204]
          /\ pc' = "responded"
     ELSE /\ res' = res
          /\ pc' = "json"
  /\ UNCHANGED << env, allowedOrigins, req, portfolio, includePrices,
                  validationError, symbols, requests, lookups, prices,
                  completion, outbound >>

\* app.use(express.json({ limit: "1mb" })): a body that does not parse or is
\* over the limit goes to the error handler with the parser's status.
JsonBody ==
  /\ pc = "json"
  /\ IF req.body.kind = "malformed"
     THEN /\ res' = ErrorHandler(ErrorOf(Num(400), Str(<<"Unexpected token in JSON">>)))
          /\ pc' = "responded"
     ELSE IF req.body.kind = "oversized"
     THEN /\ res' = ErrorHandler(ErrorOf(Num(413), Str(<<"request entity too large">>)))
          /\ pc' = "responded"
     ELSE /\ res' = res
          /\ pc' = "route"
  /\ UNCHANGED << env, allowedOrigins, req, portfolio, includePrices,
                  validationError, symbols, requests, lookups, prices,
                  completion, outbound >>

\* HealthCheck mounted behind the API-key check
HealthCheckBehindKey ==
  /\ pc = "route"
  /\ req.method = "GET"
  /\ res' = IF Truthy(req.apiKey) /\ req.apiKey = env.AI_SERVICE_KEY
            THEN ResJson(200, BodyObject(Undefined, Undefined, NoPrices,
                   [defined |-> TRUE,
                    OPEN_AI_KEY |-> Truthy(env.OPEN_AI_KEY),
                    FINNHUB_API_KEY |-> Truthy(env.FINNHUB_API_KEY),
                    AI_SERVICE_KEY |-> Truthy(env.AI_SERVICE_KEY),
                    ALLOWED_ORIGINS |-> allowedOrigins]))
            ELSE ResJson(401, ErrorBody(Str(<<"Unauthorized">>)))
  /\ pc' = "responded"
  /\ UNCHANGED << env, allowedOrigins, req, portfolio, includePrices,
                  validationError, symbols, requests, lookups, prices,
                  completion, outbound >>

\* app.get("/")
HealthCheck ==
  /\ pc = "route"
  /\ req.method = "GET"
  /\ res' = ResJson(200, BodyObject(Undefined, Undefined, NoPrices,
               [defined |-> TRUE,
                OPEN_AI_KEY |-> Truthy(env.OPEN_AI_KEY),
                FINNHUB_API_KEY |-> Truthy(env.FINNHUB_API_KEY),
                AI_SERVICE_KEY |-> Truthy(env.AI_SERVICE_KEY),
                ALLOWED_ORIGINS |-> allowedOrigins]))
  /\ pc' = "responded"
  /\ UNCHANGED << env, allowedOrigins, req, portfolio, includePrices,
                  validationError, symbols, requests, lookups, prices,
                  completion, outbound >>

apiKeyMiddleware ==
  /\ pc = "route"
  /\ req.method = "POST"
  /\ LET expected == requireEnv("AI_SERVICE_KEY")
         provided == req.apiKey
     IN IF expected.threw
        THEN /\ res' = ResJson(500, ErrorBody(expected.error.message))
             /\ pc' = "responded"
        ELSE IF ~Truthy(provided) \/ provided # expected.value
        THEN /\ res' = ResJson(401, ErrorBody(Str(<<"Unauthorized">>)))
             /\ pc' = "responded"
        ELSE /\ res' = res
             /\ pc' = "handler"
  /\ UNCHANGED << env, allowedOrigins, req, portfolio, includePrices,
                  validationError, symbols, requests, lookups, prices,
                  completion, outbound >>

----------------------------------------------------------------------------
(* Price fetcher (server.js:86-108) *)

\* NormalizeSymbol without the upper-casing
NormalizeSymbolTrimOnly(s) == Trim(s.s)

\* String(s).trim().toUpperCase() of a string value
NormalizeSymbol(s) == ToUpperCase(Trim(s.s))

RECURSIVE Dedupe(_, _)
Dedupe(seq, seen) ==
  IF seq = <<>> THEN seen
  ELSE IF Includes(seen, Head(seq)) THEN Dedupe(Tail(seq), seen)
  ELSE Dedupe(Tail(seq), Append(seen, Head(seq)))

\* Array.from(new Set(symbols.map(...))): first occurrences, in order
Unique(syms) == Dedupe([i \in 1..Len(syms) |-> NormalizeSymbol(syms[i])], <<>>)

\* What the quote provider does with one request: an HTTP response with a
\* status and the c of its JSON, a timeout, or a network error.
Outcome(kind, status, c) == [kind |-> kind, status |-> status, c |-> c]
NoOutcome == Outcome("none", 0, Undefined)

OutcomeValues ==
  { Outcome("timeout", 0, Undefined), Outcome("network", 0, Undefined) }
  \cup { Outcome("response", 200, c) :
           c \in {Num(190), Num(0), Undefined, Null, Str(<<"190">>)} }
  \cup { Outcome("response", 429, Undefined), Outcome("response", 429, Num(190)),
         Outcome("response", 503, Num(190)) }

validateStatus(s) == s >= 200 /\ s < 500

PendingLookup ==
  [state |-> "pending", symbol |-> <<>>, price |-> Undefined, outcome |-> NoOutcome]

\* SettledLookup without the .catch: a failed request leaves a rejected promise
SettledLookupNoCatch(symbol, o) ==
  IF o.kind = "response" /\ o.status >= 200 /\ o.status < 500
  THEN [state |-> "fulfilled", symbol |-> symbol, price |-> Coalesce(o.c, Null),
        outcome |-> o]
  ELSE [state |-> "rejected", symbol |-> symbol, price |-> Undefined, outcome |-> o]

\* The promise of one request once the provider has answered:
\* .then((resp) => [symbol, resp?.data?.c ?? null]).catch(() => [symbol, null])
SettledLookup(symbol, o) ==
  IF o.kind = "response" /\ validateStatus(o.status)
  THEN [state |-> "fulfilled", symbol |-> symbol, price |-> Coalesce(o.c, Null),
        outcome |-> o]
  ELSE [state |-> "fulfilled", symbol |-> symbol, price |-> Null, outcome |-> o]

\* prices[symbol] = value
SetPrice(map, symbol, value) ==
  [k \in DOMAIN map \cup {symbol} |-> IF k = symbol THEN value ELSE map[k]]

RECURSIVE AssemblePrices(_, _)
\* the loop over the settled results (server.js:100-106)
AssemblePrices(settled, map) ==
  IF settled = <<>> THEN map
  ELSE LET result == Head(settled)
       IN IF result.state = "fulfilled"
          THEN AssemblePrices(Tail(settled),
                 SetPrice(map, result.symbol,
                          IF TypeOf(result.price) = "number" THEN result.price ELSE Null))
          ELSE AssemblePrices(Tail(settled), map)

AllSettled == \A i \in 1..Len(lookups) : lookups[i].state # "pending"

\* unique.map((symbol) => axios.get(...)): one request per element of unique
IssueLookups(syms) ==
  /\ symbols' = syms
  /\ requests' = Unique(syms)
  /\ lookups' = [i \in 1..Len(Unique(syms)) |-> PendingLookup]
  /\ outbound' = [outbound EXCEPT !.quotes = @ + Len(Unique(syms))]

\* One outbound quote request settles.
SettleLookup ==
  /\ pc = "awaitPrices"
  /\ \E i \in 1..Len(lookups), o \in OutcomeValues :
       /\ lookups[i].state = "pending"
       /\ lookups' = [lookups EXCEPT ![i] = SettledLookup(requests[i], o)]
  /\ UNCHANGED << env, allowedOrigins, req, pc, portfolio, includePrices,
                  validationError, symbols, requests, prices, completion,
                  outbound, res >>

----------------------------------------------------------------------------
(* The analyze-portfolio handler (server.js:111-151) *)

\* What the completion provider does with the request: a completion whose
\* first choice has the content (Undefined when there is no choice), or a
\* thrown error.
Completed(content) ==
  [ok |-> TRUE, content |-> content, error |-> ErrorOf(Undefined, Undefined)]
Failed(error) == [ok |-> FALSE, content |-> Undefined, error |-> error]

WithResponse(status, data, message) ==
  [response |-> [present |-> TRUE, status |-> status, data |-> data],
   status |-> Undefined, message |-> message]

CompletionValues ==
  { Completed(c) : c \in {Str(<<"Diversify.">>), Str(<<>>), Null, Undefined} }
  \cup { Failed(ErrorOf(Num(429), Str(<<"429 Rate limit reached">>))),
         Failed(ErrorOf(Undefined, Str(<<"Connection error.">>))),
         Failed(ErrorOf(Undefined, Obj)),
         Failed(ErrorOf(Undefined, Undefined)),
         Failed(WithResponse(Num(503), Str(<<"Service Unavailable">>),
                             Str(<<"Request failed with status code 503">>))),
         Failed(WithResponse(Num(401), Obj,
                             Str(<<"Request failed with status code 401">>))),
         Failed(WithResponse(Undefined, Undefined, Str(<<"socket hang up">>))) }

\* openai.chat.completions.create(...): the request goes out
IssueCompletion ==
  /\ completion' = [state |-> "pending", outcome |-> Failed(ErrorOf(Undefined, Undefined))]
  /\ pc' = "awaitCompletion"

\* const { portfolio, includePrices = true } = req.body || {}
BodyPortfolio(b) == IF b.kind = "object" THEN b.portfolio ELSE NonArray("undefined")
BodyIncludePrices(b) ==
  IF b.kind = "object" /\ b.includePrices # Undefined THEN b.includePrices
  ELSE Bool(TRUE)

\* The handler up to its first await: validation, then either the quote
\* requests (fetchPricesForSymbols up to Promise.allSettled) or, without
\* prices, the completion request.
AnalyzePortfolio ==
  /\ pc = "handler"
  /\ portfolio' = BodyPortfolio(req.body)
  /\ includePrices' = BodyIncludePrices(req.body)
  /\ validationError' = validatePortfolioInput(portfolio')
  /\ IF Truthy(validationError')
     THEN /\ res' = ResJson(400, ErrorBody(validationError'))
          /\ pc' = "responded"
          /\ UNCHANGED << symbols, requests, lookups, prices, completion, outbound >>
     ELSE IF Truthy(includePrices')
     THEN LET token == requireEnv("FINNHUB_API_KEY")
          IN IF token.threw
             THEN /\ res' = CatchAnalyze(token.error)
                  /\ pc' = "responded"
                  /\ symbols' = [i \in 1..Len(portfolio'.items) |->
                                   portfolio'.items[i].symbol]
                  /\ UNCHANGED << requests, lookups, prices, completion, outbound >>
             ELSE /\ IssueLookups([i \in 1..Len(portfolio'.items) |->
                                     portfolio'.items[i].symbol])
                  /\ pc' = "awaitPrices"
                  /\ UNCHANGED << prices, completion, res >>
     ELSE /\ prices' = <<>>
          /\ IssueCompletion
          /\ outbound' = [outbound EXCEPT !.completions = @ + 1]
          /\ symbols' = [i \in 1..Len(portfolio'.items) |-> portfolio'.items[i].symbol]
          /\ UNCHANGED << requests, lookups, res >>
  /\ UNCHANGED << env, allowedOrigins, req >>

\* FetchResume that does not wait for the requests to settle
FetchResumeWithoutWaiting ==
  /\ pc = "awaitPrices"
  /\ prices' = AssemblePrices(lookups, <<>>)
  /\ IssueCompletion
  /\ outbound' = [outbound EXCEPT !.completions = @ + 1]
  /\ UNCHANGED << env, allowedOrigins, req, portfolio, includePrices,
                  validationError, symbols, requests, lookups, res >>

\* Promise.allSettled resolves: the price map is assembled, fetchPricesForSymbols
\* returns, and the handler goes on to the completion request.
FetchResume ==
  /\ pc = "awaitPrices"
  /\ AllSettled
  /\ prices' = AssemblePrices(lookups, <<>>)
  /\ IssueCompletion
  /\ outbound' = [outbound EXCEPT !.completions = @ + 1]
  /\ UNCHANGED << env, allowedOrigins, req, portfolio, includePrices,
                  validationError, symbols, requests, lookups, res >>

\* AnalysisBody as { analysis, prices }
AnalysisBodyWithPrices(content) ==
  BodyObject(Undefined, OrElse(content, Str(<<"No analysis available.">>)),
             [defined |-> TRUE, map |-> prices], NoHealth)

\* { analysis, prices: includePrices ? prices : undefined }
AnalysisBody(content) ==
  BodyObject(Undefined, OrElse(content, Str(<<"No analysis available.">>)),
             IF Truthy(includePrices) THEN [defined |-> TRUE, map |-> prices]
             ELSE NoPrices,
             NoHealth)

\* The completion request settles: the analysis is sent, or the catch answers.
CompletionSettles ==
  /\ pc = "awaitCompletion"
  /\ \E o \in CompletionValues :
       /\ completion' = [state |-> "settled", outcome |-> o]
       /\ res' = IF o.ok THEN ResJson(200, AnalysisBody(o.content))
                 ELSE CatchAnalyze(o.error)
  /\ pc' = "responded"
  /\ UNCHANGED << env, allowedOrigins, req, portfolio, includePrices,
                  validationError, symbols, requests, lookups, prices, outbound >>

Next ==
  \/ Receive
  \/ CorsGate
  \/ JsonBody
  \/ HealthCheck
  \/ apiKeyMiddleware
  \/ AnalyzePortfolio
  \/ SettleLookup
  \/ FetchResume
  \/ CompletionSettles

Spec == Init /\ [][Next]_vars

----------------------------------------------------------------------------
(* The price fetcher alone: any symbols, with or without the token. *)

MaxSymbols == 3

SymbolPool ==
  { Str(aapl), Str(AAPL), Str(<<" ">> \o aapl \o <<" ">>), Str(msft),
    Str(MSFT \o <<" ">>) }

SymbolSeqs == UNION { [1..k -> SymbolPool] : k \in 0..MaxSymbols }

InitFetch ==
  /\ env \in { [NoEnv EXCEPT !.FINNHUB_API_KEY = v] : v \in {Undefined, Str(<<"fh-token">>)} }
  /\ allowedOrigins = <<>>
  /\ req = NoRequest
  /\ pc = "fetchCall"
  /\ portfolio = NonArray("undefined")
  /\ includePrices = Undefined
  /\ validationError = Undefined
  /\ symbols \in SymbolSeqs
  /\ requests = <<>>
  /\ lookups = <<>>
  /\ prices = <<>>
  /\ completion = NoCompletion
  /\ outbound = NoOutbound
  /\ res = NoResponse

\* fetchPricesForSymbols(symbols) up to Promise.allSettled
FetchCall ==
  /\ pc = "fetchCall"
  /\ IF requireEnv("FINNHUB_API_KEY").threw
     THEN /\ pc' = "fetchThrew"
          /\ UNCHANGED << symbols, requests, lookups, outbound >>
     ELSE /\ IssueLookups(symbols)
          /\ pc' = "awaitPrices"
  /\ UNCHANGED << env, allowedOrigins, req, portfolio, includePrices,
                  validationError, prices, completion, res >>

\* Promise.allSettled resolves and fetchPricesForSymbols returns the map.
FetchReturn ==
  /\ pc = "awaitPrices"
  /\ AllSettled
  /\ prices' = AssemblePrices(lookups, <<>>)
  /\ pc' = "fetchReturned"
  /\ UNCHANGED << env, allowedOrigins, req, portfolio, includePrices,
                  validationError, symbols, requests, lookups, completion,
                  outbound, res >>

NextFetch == FetchCall \/ SettleLookup \/ FetchReturn

SpecFetch == InitFetch /\ [][NextFetch]_vars

----------------------------------------------------------------------------
(* C4 *)

IsFiniteNumber(q) == q.t = "number" /\ q.s = <<>>

HasNonWhitespace(s) == \E i \in 1..Len(s) : s[i] # " "

ItemAcceptable(item) ==
  /\ item.v.t = "object"
  /\ item.symbol.t = "string" /\ HasNonWhitespace(item.symbol.s)
  /\ \/ item.quantity.t = "undefined"
     \/ IsFiniteNumber(item.quantity) /\ item.quantity.n >= 0

PortfolioAcceptable(p) ==
  /\ p.t = "array"
  /\ Len(p.items) >= 1
  /\ \A i \in 1..Len(p.items) : ItemAcceptable(p.items[i])

\* C4: validatePortfolioInput returns null exactly when the value is a
\* non-empty array of non-null objects whose symbol is a string with
\* non-whitespace content and whose quantity, when present, is a finite
\* number >= 0; otherwise it returns an error string.
C4_ValidIffAcceptable ==
  pc = "validated" =>
    /\ (validationError = Null) <=> PortfolioAcceptable(portfolio)
    /\ validationError # Null => validationError.t = "string"

----------------------------------------------------------------------------
(* The requests the claims speak of *)

Responded == pc = "responded"

\* The allow-list each ALLOWED_ORIGINS value configures, written out.
ConfiguredOrigins ==
  CASE env.ALLOWED_ORIGINS = Str(<<Good>>) -> {<<Good>>}
    [] env.ALLOWED_ORIGINS = Str(<<" ", Good, " ", ",", ",", App>>) -> {<<Good>>, <<App>>}
    [] OTHER -> {}

HasOriginHeader == req.origin # Undefined
HasNonEmptyOrigin == req.origin # Undefined /\ req.origin.s # <<>>
ForeignOrigin == ConfiguredOrigins # {} /\ req.origin.s \notin ConfiguredOrigins

CorsRejected ==
  /\ Responded
  /\ res.status = 500
  /\ res.keys = {"error"}
  /\ res.error = Str(<<"Not allowed by CORS">>)

BodyParses == req.body.kind \in {"none", "object"}

\* The request got as far as the key check / the handler.
ReachedKeyCheck ==
  Responded /\ req.method = "POST" /\ ~CorsRejected /\ BodyParses
KeyAccepted ==
  ReachedKeyCheck /\ Truthy(env.AI_SERVICE_KEY) /\ req.apiKey = env.AI_SERVICE_KEY

IsError(status, message) ==
  res.status = status /\ res.keys = {"error"} /\ res.error = message

MissingEnv(key) == Str(<<"Missing required env: ", key>>)

----------------------------------------------------------------------------
(* C1 *)

\* C1: a POST /analyze-portfolio without an x-api-key header is answered 401
\* {error: "Unauthorized"} whatever its body (the service secret being
\* configured and the origin admitted).
C1_NoKeyIs401 ==
  ( /\ Responded
    /\ req.method = "POST"
    /\ req.apiKey = Undefined
    /\ Truthy(env.AI_SERVICE_KEY)
    /\ ~CorsRejected )
  => IsError(401, Str(<<"Unauthorized">>))

----------------------------------------------------------------------------
(* C2, C5 *)

\* The symbol each raw symbol of the pool stands for, written out.
CanonicalSymbol(s) ==
  IF s \in {Str(aapl), Str(AAPL), Str(<<" ">> \o aapl \o <<" ">>)} THEN AAPL ELSE MSFT

CanonicalSymbols == { CanonicalSymbol(symbols[i]) : i \in 1..Len(symbols) }

\* The price the claim gives a lookup: the number of a response that was
\* accepted and carried one, null otherwise.
ExpectedPrice(o) ==
  IF o.kind = "response" /\ o.status < 500 /\ o.c.t = "number" THEN o.c ELSE Null

\* C2: once every lookup has settled fetchPricesForSymbols returns a map whose
\* keys are exactly the trimmed, upper-cased, deduplicated symbols; a symbol
\* maps to the number its lookup returned and to null in every other case,
\* whatever the other lookups did; the call throws only before any lookup,
\* when the quote-provider key is missing.
C2_PriceMapCoversEverySymbol ==
  /\ pc = "fetchReturned" =>
       /\ DOMAIN prices = CanonicalSymbols
       /\ \A i \in 1..Len(lookups) :
            /\ requests[i] \in DOMAIN prices
            /\ prices[requests[i]] = ExpectedPrice(lookups[i].outcome)
  /\ pc = "fetchThrew" => ~Truthy(env.FINNHUB_API_KEY) /\ outbound.quotes = 0
  /\ (pc = "awaitPrices" /\ AllSettled) => ENABLED FetchReturn

C2_Witness ==
  /\ pc = "fetchReturned"
  /\ Len(lookups) = 2
  /\ lookups[1].outcome.kind = "timeout"
  /\ lookups[2].outcome = Outcome("response", 200, Num(190))
  /\ prices[requests[1]] = Null
  /\ prices[requests[2]] = Num(190)

\* C5: the fetcher issues exactly one quote request per distinct trimmed,
\* upper-cased symbol and none for anything else.
C5_OneRequestPerDistinctSymbol ==
  /\ pc \in {"awaitPrices", "fetchReturned"} =>
       /\ { requests[i] : i \in 1..Len(requests) } = CanonicalSymbols
       /\ Len(requests) = Cardinality(CanonicalSymbols)
       /\ Len(lookups) = Len(requests)
       /\ outbound.quotes = Len(requests)
  /\ pc \in {"fetchCall", "fetchThrew"} => outbound.quotes = 0 /\ lookups = <<>>

C5_Witness ==
  /\ pc = "awaitPrices"
  /\ symbols = << Str(aapl), Str(AAPL), Str(msft) >>
  /\ requests = << AAPL, MSFT >>
  /\ outbound.quotes = 2

----------------------------------------------------------------------------
(* C3 *)

IsHealthBody ==
  /\ res.keys = {"status", "service", "env"}
  /\ res.health.defined
  /\ res.health.OPEN_AI_KEY = (env.OPEN_AI_KEY # Undefined)
  /\ res.health.FINNHUB_API_KEY = (env.FINNHUB_API_KEY # Undefined)
  /\ res.health.AI_SERVICE_KEY = (env.AI_SERVICE_KEY \notin {Undefined, Str(<<>>)})

\* C3 as stated: every GET / is answered 200 with the health body.
C3_HealthAlways200 ==
  (Responded /\ req.method = "GET") => res.status = 200 /\ IsHealthBody

\* C3 amended: a GET / is answered 200 with the health body, with or without
\* the key header and whatever secrets are set, exactly when its origin is
\* admitted by the CORS gate and its body, if any, parses; a refused origin
\* is answered 500 and a body that does not parse or is too large 400 or 413.
C3_HealthUnlessCorsOrBodyRejects ==
  (Responded /\ req.method = "GET") =>
    IF HasNonEmptyOrigin /\ ForeignOrigin
    THEN IsError(500, Str(<<"Not allowed by CORS">>))
    ELSE IF ~BodyParses
    THEN res.status \in {400, 413} /\ res.keys = {"error"}
    ELSE res.status = 200 /\ IsHealthBody

C3_Witness ==
  /\ Responded
  /\ req.method = "GET"
  /\ req.apiKey = Undefined
  /\ env.AI_SERVICE_KEY = Undefined
  /\ env.OPEN_AI_KEY = Undefined
  /\ req.origin = Str(<<Evil>>)
  /\ env.ALLOWED_ORIGINS = Undefined
  /\ res.status = 200
  /\ IsHealthBody

----------------------------------------------------------------------------
(* C6 *)

\* The status an error carries: its response's, or its own.
HasCarriedStatus(e) ==
  (e.response.present /\ e.response.status # Undefined) \/ e.status # Undefined
CarriedStatus(e) ==
  IF e.response.present /\ e.response.status # Undefined THEN e.response.status.n
  ELSE e.status.n

\* C6: when the analysis call (or the price fetch) fails, the response has the
\* status the upstream error carries, 500 when it carries none, and a body
\* {error} whose error is a string.
C6_StatusFromUpstreamError ==
  /\ (Responded /\ completion.state = "settled" /\ ~completion.outcome.ok) =>
       /\ res.status = IF HasCarriedStatus(completion.outcome.error)
                       THEN CarriedStatus(completion.outcome.error)
                       ELSE 500
       /\ res.keys = {"error"}
       /\ res.error.t = "string"
  /\ (KeyAccepted /\ validationError = Null /\ Truthy(includePrices)
        /\ ~Truthy(env.FINNHUB_API_KEY)) =>
       /\ res.status = 500
       /\ res.keys = {"error"}
       /\ res.error.t = "string"

----------------------------------------------------------------------------
(* C7 *)

HandlerUntouched ==
  /\ validationError = Undefined
  /\ outbound = NoOutbound
  /\ completion = NoCompletion
  /\ ~res.health.defined

\* C7 as stated: rejected exactly when the request has an Origin header, the
\* allow-list is not empty, and the origin is not in it.
C7_RejectedIffListedOut ==
  pc \notin {"listening", "cors"} =>
    (CorsRejected <=> (HasOriginHeader /\ ForeignOrigin))

\* C7 amended: a request is rejected by the CORS gate (an error response, no
\* route handler) exactly when it has a non-empty Origin header, the
\* allow-list is not empty, and the origin is not in it; an Origin header
\* with an empty value is admitted like an absent one.
C7_RejectedIffNonEmptyOriginListedOut ==
  pc \notin {"listening", "cors"} =>
    /\ CorsRejected <=> (HasNonEmptyOrigin /\ ForeignOrigin)
    /\ CorsRejected => HandlerUntouched
    /\ (HasNonEmptyOrigin /\ ForeignOrigin) => Responded

C7_Witness ==
  /\ CorsRejected
  /\ req.origin = Str(<<Evil>>)
  /\ env.ALLOWED_ORIGINS = Str(<<" ", Good, " ", ",", ",", App>>)
  /\ req.method = "POST"
  /\ req.apiKey = Str(Secret)

----------------------------------------------------------------------------
(* C8 *)

\* C8: a request that needs a secret which is absent is answered 500
\* {error: "Missing required env: <name>"}: the service secret at the key
\* check (with or without the key header), the quote-provider key at the
\* price fetch, the completion-provider key at the completion request.
C8_MissingSecretIs500 ==
  /\ (ReachedKeyCheck /\ ~Truthy(env.AI_SERVICE_KEY)) =>
       IsError(500, MissingEnv("AI_SERVICE_KEY"))
  /\ (KeyAccepted /\ validationError = Null /\ Truthy(includePrices)
        /\ ~Truthy(env.FINNHUB_API_KEY)) =>
       IsError(500, MissingEnv("FINNHUB_API_KEY"))
  /\ (Responded /\ completion.state = "settled" /\ ~Truthy(env.OPEN_AI_KEY)) =>
       IsError(500, MissingEnv("OPEN_AI_KEY"))

----------------------------------------------------------------------------
(* C9 *)

\* Prices are requested unless includePrices is given and falsy.
PricesRequested ==
  req.body.includePrices = Undefined \/ Truthy(req.body.includePrices)

Succeeded == Responded /\ completion.state = "settled" /\ completion.outcome.ok

\* C9: a POST /analyze-portfolio whose analysis call succeeds is answered 200
\* with an analysis string, and the response has a prices key exactly when
\* prices were requested (includePrices omitted, true, or any truthy value);
\* with includePrices false it has none.
C9_PricesKeyIffRequested ==
  Succeeded =>
    /\ res.status = 200
    /\ "analysis" \in res.keys
    /\ res.analysis.t = "string"
    /\ "error" \notin res.keys
    /\ "prices" \in res.keys <=> PricesRequested
    /\ req.body.includePrices = Bool(FALSE) => "prices" \notin res.keys
    /\ PricesRequested => res.prices = prices /\ DOMAIN prices # {}

C9_Witness ==
  /\ Succeeded
  /\ req.body.includePrices = Bool(FALSE)
  /\ req.body.portfolio = Array(<< Position(AAPL, Num(5)) >>)
  /\ res.status = 200
  /\ res.keys = {"analysis"}
  /\ res.analysis = Str(<<"Diversify.">>)

----------------------------------------------------------------------------
(* C10 *)

AnyOutbound == outbound.quotes > 0 \/ outbound.completions > 0

GatedUpToTheAnswer ==
  /\ AnyOutbound =>
       /\ Truthy(env.AI_SERVICE_KEY) /\ req.apiKey = env.AI_SERVICE_KEY
       /\ validationError = Null
       /\ validatePortfolioInput(req.body.portfolio) = Null
  /\ (req.body.includePrices # Undefined /\ ~Truthy(req.body.includePrices)) =>
       outbound.quotes = 0
  /\ outbound.quotes = Len(lookups)
  /\ outbound.completions = (IF completion.state = "none" THEN 0 ELSE 1)
  /\ completion.state # "none" =>
       \A i \in 1..Len(lookups) : lookups[i].state # "pending"

\* The answer's status is the one a failed completion request carried.
StatusFromCompletionError ==
  /\ completion.state = "settled"
  /\ ~completion.outcome.ok
  /\ completion.outcome.error.response.present
  /\ completion.outcome.error.response.status = Num(res.status)

\* C10 as stated: no outbound call is issued unless the key check and the
\* validation have passed; no quote lookup is issued when includePrices is
\* false; the completion request is issued only once every quote lookup has
\* settled; a request answered 401 or 400 has issued none.
C10_AnsweredRejectedMeansNoCall ==
  /\ GatedUpToTheAnswer
  /\ (Responded /\ res.status \in {400, 401}) => ~AnyOutbound

\* C10 amended: as stated, except that a request answered 401 or 400 has
\* issued no outbound call unless that status was taken from the error of
\* its failed completion request.
C10_OutboundCallsAreGated ==
  /\ GatedUpToTheAnswer
  /\ (Responded /\ res.status \in {400, 401}) =>
       ~AnyOutbound \/ StatusFromCompletionError
  /\ (Responded /\ res.status \in {400, 401} /\ completion.state = "none") =>
       ~AnyOutbound

C10_Witness ==
  /\ pc = "awaitCompletion"
  /\ completion.state = "pending"
  /\ outbound = [quotes |-> 2, completions |-> 1]
  /\ Len(lookups) = 2
  /\ lookups[1].outcome.kind = "network"
  /\ lookups[2].outcome.kind = "response"

====
